---- MODULE Spec2Model ----
(***************************************************************************)
(* Model of the search / addressing / alignment code of baca               *)
(* (src/src/baca/components/contents.py, src/src/baca/app.py).             *)
(*                                                                         *)
(* Conventions                                                             *)
(*  - a Python str is a sequence of one-character strings; positions in    *)
(*    operators named after Python functions are 0-based as in Python      *)
(*  - Python None is the value None; a value of another kind that may be   *)
(*    None (a str, an int) is wrapped as Some(v), so that the two compare  *)
(*  - a Content is a sequence of segments, a segment the sequence of its   *)
(*    rendered lines; its height is the number of its lines                *)
(*  - documents are left-to-right (Content.is_rtl = False) and built from  *)
(*    Body / Image segments (config.pretty = False), so get_display is not *)
(*    applied and SegmentWidget.get_text_at is the line extractor; the     *)
(*    right-to-left branch of Body.render_line is modelled on its own      *)
(*  - a handler of the app and a call_after_refresh callback run to their  *)
(*    end before the next one starts; an exception that leaves one ends    *)
(*    the app (exit names it)                                              *)
(*  - the alphabet is lower case, so re.IGNORECASE changes no match        *)
(***************************************************************************)
EXTENDS Integers, Sequences, FiniteSets, TLC

None == [none |-> TRUE]
Some(v) == [some |-> v]

Coordinate(x, y) == [x |-> x, y |-> y]

(***************************************************************************)
(* Python string primitives                                                *)
(***************************************************************************)
IsSpace(c) == c = " "

RECURSIVE SplitFrom(_, _, _, _)
SplitFrom(s, i, cur, acc) ==
    IF i > Len(s)
    THEN IF cur = <<>> THEN acc ELSE Append(acc, cur)
    ELSE IF IsSpace(s[i])
         THEN SplitFrom(s, i + 1, <<>>, IF cur = <<>> THEN acc ELSE Append(acc, cur))
         ELSE SplitFrom(s, i + 1, Append(cur, s[i]), acc)

\* str.split(): the maximal runs of non-whitespace characters
split(s) == SplitFrom(s, 1, <<>>, <<>>)

RECURSIVE join(_, _)
\* sep.join(parts)
join(sep, parts) ==
    IF parts = <<>> THEN <<>>
    ELSE IF Len(parts) = 1 THEN parts[1]
    ELSE parts[1] \o sep \o join(sep, Tail(parts))

RECURSIVE lstripFrom(_, _)
lstripFrom(s, i) ==
    IF i <= Len(s) /\ IsSpace(s[i]) THEN lstripFrom(s, i + 1) ELSE i

RECURSIVE rstripFrom(_, _)
rstripFrom(s, j) ==
    IF j >= 1 /\ IsSpace(s[j]) THEN rstripFrom(s, j - 1) ELSE j

\* str.strip()
strip(s) == SubSeq(s, lstripFrom(s, 1), rstripFrom(s, Len(s)))

(***************************************************************************)
(* The compiled pattern  r"\s+".join(re.escape(word) for word in words)    *)
(***************************************************************************)
RECURSIVE SkipSpaces(_, _)
\* the 0-based position after the whitespace run that starts at position p
SkipSpaces(text, p) ==
    IF p < Len(text) /\ IsSpace(text[p + 1]) THEN SkipSpaces(text, p + 1) ELSE p

RECURSIVE MatchWords(_, _, _, _)
\* the end of the match of words[k..] that starts at position p, or -1.
\* A word is matched literally; between two words \s+ takes one or more
\* whitespace characters (all of them, as the next word starts with a
\* non-whitespace character).
MatchWords(text, words, k, p) ==
    IF k > Len(words) THEN p
    ELSE LET w == words[k]
             e == p + Len(w)
         IN  IF e <= Len(text) /\ SubSeq(text, p + 1, e) = w
             THEN IF k = Len(words) THEN e
                  ELSE LET q == SkipSpaces(text, e)
                       IN  IF q > e THEN MatchWords(text, words, k + 1, q) ELSE -1
             ELSE -1

\* pattern.search(text): the leftmost match as [start, end], or None
pattern_search(words, text) ==
    LET starts == {p \in 0..Len(text) : MatchWords(text, words, 1, p) # -1}
    IN  IF starts = {} THEN None
        ELSE LET s == CHOOSE p \in starts : \A q \in starts : p <= q
             IN  [start |-> s, end |-> MatchWords(text, words, 1, s)]

(***************************************************************************)
(* Content: the virtual line addressor                                     *)
(***************************************************************************)
RECURSIVE SumHeights(_, _)
SumHeights(segments, k) ==
    IF k > Len(segments) THEN 0 ELSE Len(segments[k]) + SumHeights(segments, k + 1)

\* self.virtual_size.height: the segments are laid out one below the other
virtual_height(content) == SumHeights(content, 1)

\* segment.virtual_region_with_margin.height of every segment
segment_heights(content) == [k \in 1..Len(content) |-> Len(content[k])]

RECURSIVE AddressFrom(_, _, _, _)
\* the loop of Content.get_text_at over the segments from the k-th on: the
\* segment (0-based) and the local line handed to segment.get_text_at, or None
AddressFrom(heights, y, k, accumulated_height) ==
    IF k > Len(heights) THEN None
    ELSE IF accumulated_height + heights[k] > y
         THEN [segment |-> k - 1, local |-> y - accumulated_height]
         ELSE AddressFrom(heights, y, k + 1, accumulated_height + heights[k])

\* which segment line Content.get_text_at(y) addresses
get_text_at_address(heights, y) == AddressFrom(heights, y, 1, 0)

\* SegmentWidget.get_text_at(y): the text of the segment's rendered line y
\* (a row outside the rendered lines is taken as blank; search and alignment
\* only ask for rows inside the document)
segment_get_text_at(segment, y) ==
    IF y \in 0..(Len(segment) - 1) THEN segment[y + 1] ELSE <<>>

\* Content.get_text_at(y)
get_text_at(content, y) ==
    LET a == get_text_at_address(segment_heights(content), y)
    IN  IF a = None THEN None
        ELSE Some(segment_get_text_at(content[a.segment + 1], a.local))

(***************************************************************************)
(* Content.search_next                                                     *)
(***************************************************************************)
lookahead_buffer == 10

\* a scan that starts at the top of the document whatever the cursor
line_range_from_top(content, current_coord, forward) ==
    LET h == virtual_height(content)
    IN  IF forward THEN [i \in 1..h |-> i - 1]
        ELSE [i \in 1..h |-> h - i]

\* range(current_coord.y, height) or reversed(range(0, current_coord.y + 1))
line_range(content, current_coord, forward) ==
    LET h == virtual_height(content)
        y == current_coord.y
    IN  IF forward
        THEN [i \in 1..(IF h > y THEN h - y ELSE 0) |-> y + i - 1]
        ELSE [i \in 1..(IF y >= 0 THEN y + 1 ELSE 0) |-> y - i + 1]

\* the lines of the lookahead window of linenr that are in the document and
\* whose text is neither None nor empty, in the order they are grabbed
lines_to_grab(content, linenr, forward) ==
    LET targets == [i \in 1..lookahead_buffer |->
                        IF forward THEN linenr + (i - 1) ELSE linenr - (i - 1)]
        Grabbed(t) == /\ 0 <= t
                      /\ t < virtual_height(content)
                      /\ get_text_at(content, t) # None
                      /\ get_text_at(content, t).some # <<>>
        kept == SelectSeq(targets, Grabbed)
    IN  [k \in 1..Len(kept) |-> get_text_at(content, kept[k]).some]

chunk_text(content, linenr, forward) == join(<<" ">>, lines_to_grab(content, linenr, forward))

\* len(self.get_text_at(linenr) or "")
first_line_len(content, linenr) ==
    LET t == get_text_at(content, linenr)
    IN  IF t = None THEN 0 ELSE Len(t.some)

\* "we only care if the match STARTS on the current linenr"
StartsOnLine(content, linenr, start) == start <= first_line_len(content, linenr)

\* a rejection that lets the match at the cursor itself through
AlreadyVisited_strict(linenr, start, current_coord) ==
    linenr = current_coord.y /\ start < current_coord.x

\* "skip if we are on the starting line but before the current_x"
AlreadyVisited(linenr, start, current_coord) ==
    linenr = current_coord.y /\ start <= current_coord.x

RECURSIVE ScanLines(_, _, _, _, _)
\* the for loop of search_next over the candidate lines still to visit:
\* the accepted [coord, match_str], or None
ScanLines(content, words, current_coord, forward, todo) ==
    IF todo = <<>> THEN None
    ELSE LET linenr == Head(todo)
             chunk == chunk_text(content, linenr, forward)
             match == IF chunk # <<>> THEN pattern_search(words, chunk) ELSE None
         IN  IF /\ match # None
                /\ StartsOnLine(content, linenr, match.start)
                /\ ~AlreadyVisited(linenr, match.start, current_coord)
             THEN [coord |-> Coordinate(match.start, linenr),
                   match_str |-> SubSeq(chunk, match.start + 1, match.end)]
             ELSE ScanLines(content, words, current_coord, forward, Tail(todo))

\* the accepted match of search_next (the Coordinate returned and the text of
\* the SearchMatch mounted), or None
search_next_match(content, pattern_str, current_coord, forward) ==
    ScanLines(content, split(pattern_str), current_coord, forward,
              line_range(content, current_coord, forward))

\* the value search_next returns: Coordinate | None
search_next(content, pattern_str, current_coord, forward) ==
    LET m == search_next_match(content, pattern_str, current_coord, forward)
    IN  IF m = None THEN None ELSE m.coord

(***************************************************************************)
(* Content.text_to_sentences                                               *)
(***************************************************************************)
RECURSIVE re_split_from(_, _, _, _)
\* re.split(r'([.])\s*', s) from the 1-based index i on: the text before each
\* period, the period captured, the whitespace after it consumed
re_split_from(s, i, cur, acc) ==
    IF i > Len(s) THEN Append(acc, cur)
    ELSE IF s[i] = "."
         THEN re_split_from(s, SkipSpaces(s, i) + 1, <<>>, acc \o <<cur, <<".">>>>)
         ELSE re_split_from(s, i + 1, Append(cur, s[i]), acc)

re_split(s) == re_split_from(s, 1, <<>>, <<>>)

RECURSIVE recombine(_, _)
\* for i in range(0, len(sentences) - 1, 2), from the 0-based i on
recombine(sentences, i) ==
    IF i >= Len(sentences) - 1 THEN <<>>
    ELSE LET sentence_text == strip(sentences[i + 1])
         IN  (IF sentence_text # <<>>
              THEN <<sentence_text \o strip(sentences[i + 2])>>
              ELSE <<>>)
             \o recombine(sentences, i + 2)

\* the final fragment, kept when the list has an odd length and it is not empty
last_fragment_dropped(sentences) == <<>>

last_fragment(sentences) ==
    IF Len(sentences) % 2 # 0 /\ strip(sentences[Len(sentences)]) # <<>>
    THEN <<strip(sentences[Len(sentences)])>>
    ELSE <<>>

text_to_sentences(paragraph) ==
    LET cleaned_paragraph == join(<<" ">>, split(paragraph))
        sentences == re_split(cleaned_paragraph)
        final_sentences == recombine(sentences, 0) \o last_fragment(sentences)
        NotEmpty(t) == t # <<>>
    IN  SelectSeq(final_sentences, NotEmpty)

(***************************************************************************)
(* Content.alignment_search                                                *)
(***************************************************************************)
\* the sentences 1..n of the list, joined: " ".join(all_sentences[1:n + 1])
join_sentences(all_sentences, n) ==
    LET last == IF n + 1 < Len(all_sentences) THEN n + 1 ELSE Len(all_sentences)
    IN  join(<<" ">>, SubSeq(all_sentences, 2, last))

\* the lines linenr, linenr + 1, ... of the lookahead window that are in the
\* document and not empty (get_text_at(target_line, rtl_fix=False))
alignment_lines_to_grab(content, linenr) ==
    LET targets == [i \in 1..lookahead_buffer |-> linenr + (i - 1)]
        Grabbed(t) == /\ 0 <= t
                      /\ t < virtual_height(content)
                      /\ get_text_at(content, t) # None
                      /\ get_text_at(content, t).some # <<>>
        kept == SelectSeq(targets, Grabbed)
    IN  [k \in 1..Len(kept) |-> get_text_at(content, kept[k]).some]

alignment_n == 5

\* the fingerprint alignment_search computes for line linenr
alignment_fingerprint(content, linenr) ==
    LET chunk == join(<<" ">>, alignment_lines_to_grab(content, linenr))
    IN  join_sentences(text_to_sentences(chunk), alignment_n)

alignment_start_line(content, current_coord, radius) ==
    IF radius = -1 THEN 0
    ELSE IF current_coord.y - radius > 0 THEN current_coord.y - radius ELSE 0

alignment_end_line(content, current_coord, radius) ==
    IF radius = -1 THEN virtual_height(content)
    ELSE IF current_coord.y + radius < virtual_height(content)
         THEN current_coord.y + radius ELSE virtual_height(content)

\* a return of the matched line itself
alignment_return_line(linenr) == Some(linenr)

\* return linenr + 1
alignment_return(linenr) == Some(linenr + 1)

RECURSIVE AlignScan(_, _, _, _)
\* the for loop over range(linenr, end_line)
AlignScan(content, pattern_str, linenr, end_line) ==
    IF linenr >= end_line THEN None
    ELSE IF alignment_fingerprint(content, linenr) = pattern_str
         THEN alignment_return(linenr)
         ELSE AlignScan(content, pattern_str, linenr + 1, end_line)

\* alignment_search(pattern_str, current_coord, radius): int | None
alignment_search(content, pattern_str, current_coord, radius) ==
    AlignScan(content, pattern_str,
              alignment_start_line(content, current_coord, radius),
              alignment_end_line(content, current_coord, radius))

(***************************************************************************)
(* Content.get_n_visible_sentences and the fix_points of action_switch_book *)
(***************************************************************************)
\* the lines current_y, current_y + 1, ... of the lookahead window that are
\* in the document and not empty (get_text_at(target_line, rtl_fix=False))
visible_lines_to_grab(content, current_y) ==
    LET targets == [i \in 1..lookahead_buffer |-> current_y + (i - 1)]
        Grabbed(t) == /\ 0 <= t
                      /\ t < virtual_height(content)
                      /\ get_text_at(content, t) # None
                      /\ get_text_at(content, t).some # <<>>
        kept == SelectSeq(targets, Grabbed)
    IN  [k \in 1..Len(kept) |-> get_text_at(content, kept[k]).some]

\* get_n_visible_sentences(current_y, n) of a left-to-right document
get_n_visible_sentences(content, current_y, n) ==
    LET chunk == join(<<" ">>, visible_lines_to_grab(content, current_y))
    IN  IF chunk = <<>> THEN <<>>
        ELSE join_sentences(text_to_sentences(chunk), n)

RECURSIVE split_on_from(_, _, _, _, _)
split_on_from(s, sep, i, cur, acc) ==
    IF i > Len(s) THEN Append(acc, cur)
    ELSE IF s[i] = sep
         THEN split_on_from(s, sep, i + 1, <<>>, Append(acc, cur))
         ELSE split_on_from(s, sep, i + 1, Append(cur, s[i]), acc)

\* str.split(sep) for a one-character sep: empty parts are kept
split_on(s, sep) == split_on_from(s, sep, 1, <<>>, <<>>)

\* fix_points(text): the non-blank parts between periods, stripped, each
\* given a period, joined by a blank
fix_points(text) ==
    LET raw == split_on(text, ".")
        NotBlank(q) == strip(q) # <<>>
        kept == SelectSeq(raw, NotBlank)
        fixed_sentences == [k \in 1..Len(kept) |-> Append(strip(kept[k]), ".")]
    IN  join(<<" ">>, fixed_sentences)

\* n=4 in the call of get_n_visible_sentences by action_switch_book
switch_n == 4

\* current_session_lines of action_switch_book for the viewport at current_y
current_session_lines(content, current_y) ==
    fix_points(get_n_visible_sentences(content, current_y, switch_n))

(***************************************************************************)
(* Body.render_line: the text of a right-to-left line before get_display   *)
(***************************************************************************)
\* " " * n
spaces(n) == [i \in 1..n |-> " "]

RECURSIVE total_chars(_)
\* sum(len(w) for w in words)
total_chars(words) ==
    IF words = <<>> THEN 0 ELSE Len(Head(words)) + total_chars(Tail(words))

\* a gap that never gets the extra space
current_spaces_even(i, space_width, extra_spaces) == space_width

\* space_width + (1 if i < extra_spaces else 0), i the 0-based index of the word
current_spaces(i, space_width, extra_spaces) ==
    space_width + (IF i < extra_spaces THEN 1 ELSE 0)

RECURSIVE justified_from(_, _, _, _)
\* the loop over enumerate(words[:-1]) from the 0-based i on, then words[-1]
justified_from(words, i, space_width, extra_spaces) ==
    IF i >= Len(words) - 1 THEN words[Len(words)]
    ELSE words[i + 1] \o spaces(current_spaces(i, space_width, extra_spaces))
         \o justified_from(words, i + 1, space_width, extra_spaces)

\* the line_text handed to get_display by render_line for the rendered text
\* `raw`; the strip is returned as it is when the line is blank
render_line_text(raw, target_width, text_align) ==
    LET line_text == strip(raw)
        words == split(line_text)
        use_full_justify == text_align = "justify"
    IN  IF line_text = <<>> THEN raw
        ELSE IF use_full_justify /\ Len(words) > 1 /\ 5 * Len(line_text) > 4 * target_width
        THEN LET total_spaces_needed == target_width - total_chars(words)
                 space_slots == Len(words) - 1
                 space_width == total_spaces_needed \div space_slots
                 extra_spaces == total_spaces_needed % space_slots
             IN  justified_from(words, 0, space_width, extra_spaces)
        ELSE LET padding_needed == target_width - Len(line_text)
             IN  IF padding_needed > 0 THEN line_text \o spaces(padding_needed)
                 ELSE line_text

(***************************************************************************)
(* State                                                                   *)
(***************************************************************************)
VARIABLES
    content,    \* the Content a function of contents.py is called on
    call,       \* the last call of that function: its arguments and its result
    prev,       \* the call before it, when the last call continued from its result
    ebook_paths,        \* Baca.ebook_paths: the documents the books render to
    sessions,           \* Baca.sessions: [content, display, reading_progress]
    current_index,      \* Baca.current_index
    search_mode,        \* Baca.search_mode: SearchMode | None
    highlights,         \* per session, the SearchMatch mounted in its Content, or None
    alerts,             \* the number of Alert widgets mounted
    scroll_y,           \* screen.scroll_offset.y
    reading_progress,   \* Baca.reading_progress, the fraction [num, den]
    exit,               \* "" while the app runs, else how it ended
    matches,            \* the file matches.json: missing, invalid, or its entries
    pending,            \* the perform_alignment callbacks call_after_refresh holds
    title,              \* Baca.title: the session it names, None before the first switch
    focused             \* the session whose Content has the focus, None before the first switch

fn == <<content, call, prev>>
sw == <<matches, pending, title, focused>>
app == <<ebook_paths, sessions, current_index, search_mode, highlights, alerts,
         scroll_y, reading_progress, exit, matches, pending, title, focused>>
vars == <<content, call, prev, ebook_paths, sessions, current_index, search_mode,
          highlights, alerts, scroll_y, reading_progress, exit, matches, pending,
          title, focused>>

NoCall == [op |-> "none"]

\* the greatest common divisor of a >= 0 and b > 0
GCD(a, b) == CHOOSE d \in 1..b : /\ a % d = 0 /\ b % d = 0
                                 /\ \A e \in (d + 1)..b : a % e # 0 \/ b % e # 0

\* the float num / den (den > 0), kept as the fraction in lowest terms: two
\* quotients are the same float when they are the same fraction; 0.0 is
\* Fraction(0, 1)
Fraction(num, den) == [num |-> num \div GCD(num, den), den |-> den \div GCD(num, den)]

\* Baca.__init__: no session, no search
AppConstructed ==
    /\ sessions = <<>>
    /\ current_index = 0
    /\ search_mode = None
    /\ highlights = <<>>
    /\ alerts = 0
    /\ scroll_y = 0
    /\ reading_progress = Fraction(0, 1)
    /\ exit = ""
    /\ pending = <<>>
    /\ title = None
    /\ focused = None

\* open('matches.json') fails
IndexMissing == [status |-> "missing"]

\* the functions of contents.py called on their own: no app around them
NoApp == ebook_paths = <<>> /\ matches = IndexMissing /\ AppConstructed

(***************************************************************************)
(* Inputs                                                                  *)
(***************************************************************************)
MaxHeight == 2

\* the line texts documents are built from
LineTexts ==
    { <<>>, <<"a">>, <<"b">>, <<"a", "a">>, <<"a", "b">>, <<"a", " ">>,
      <<" ", "b">>, <<"a", " ", "b">> }

\* the patterns searched for: empty, one word, two words with one and with
\* two blanks between them
Patterns ==
    { <<>>, <<"a">>, <<"a", "b">>, <<"a", " ", "b">>, <<"a", " ", " ", "b">> }

RECURSIVE Compositions(_)
\* the sequences of positive segment heights that add up to h
Compositions(h) ==
    IF h = 0 THEN {<<>>}
    ELSE UNION {{<<k>> \o c : c \in Compositions(h - k)} : k \in 1..h}

RECURSIVE Segmented(_, _)
\* the Content whose segments have the given heights and whose lines are `lines`
Segmented(lines, heights) ==
    IF heights = <<>> THEN <<>>
    ELSE <<SubSeq(lines, 1, Head(heights))>>
         \o Segmented(SubSeq(lines, Head(heights) + 1, Len(lines)), Tail(heights))

Contents ==
    UNION {{Segmented(lines, hs) : lines \in [1..h -> LineTexts], hs \in Compositions(h)}
           : h \in 0..MaxHeight}

RECURSIVE Flat(_)
\* the lines of the document, top to bottom
Flat(c) == IF c = <<>> THEN <<>> ELSE Head(c) \o Flat(Tail(c))

RECURSIVE MaxLen(_)
MaxLen(lines) ==
    IF lines = <<>> THEN 0
    ELSE LET m == MaxLen(Tail(lines))
         IN  IF Len(Head(lines)) > m THEN Len(Head(lines)) ELSE m

\* the cursors a search starts from: x from the forward seed -1 to the
\* backward seed (the width of the widest line), y a line of the document
Cursors(c) ==
    {Coordinate(x, y) : x \in -1..MaxLen(Flat(c)),
                        y \in 0..(IF virtual_height(c) = 0 THEN 0 ELSE virtual_height(c) - 1)}

(***************************************************************************)
(* SpecSearch: search_next as a function of document, pattern, cursor and  *)
(* direction, and the "next" / "previous" step that continues from the     *)
(* Coordinate it returned                                                  *)
(***************************************************************************)
SearchCall(pattern_str, current_coord, forward) ==
    [op |-> "search_next", pattern_str |-> pattern_str, current_coord |-> current_coord,
     forward |-> forward,
     result |-> search_next(content, pattern_str, current_coord, forward)]

InitSearch ==
    /\ NoApp
    /\ content \in Contents
    /\ call = NoCall
    /\ prev = NoCall

\* search_next(pattern_str, current_coord, forward)
DoSearch ==
    /\ call = NoCall
    /\ \E p \in Patterns, c \in Cursors(content), f \in BOOLEAN :
           /\ call' = SearchCall(p, c, f)
           /\ prev' = NoCall
    /\ UNCHANGED <<content, app>>

\* the cursor is replaced by the Coordinate found and search_next is called
\* again with the same pattern, in the same or in the other direction
\* (Baca.action_search_next, Baca.action_search_prev)
DoSearchAgain ==
    /\ call.op = "search_next"
    /\ call.result # None
    /\ \E f \in BOOLEAN :
           /\ call' = SearchCall(call.pattern_str, call.result, f)
           /\ prev' = call
    /\ UNCHANGED <<content, app>>

NextSearch == DoSearch \/ DoSearchAgain

SpecSearch == InitSearch /\ [][NextSearch]_vars

(***************************************************************************)
(* What the claims speak of: the occurrences of a pattern in a document    *)
(***************************************************************************)
LineAt(c, y) == Flat(c)[y + 1]

\* the text that starts with line y, read on through the wrapped lines below
TextFrom(c, y) ==
    LET rest == SubSeq(Flat(c), y + 1, Len(Flat(c)))
        NonEmpty(t) == t # <<>>
    IN  join(<<" ">>, SelectSeq(rest, NonEmpty))

\* the phrase `words` occurs with its first word at offset x of line y
Occurs(c, words, x, y) ==
    /\ words # <<>>
    /\ y \in 0..(Len(Flat(c)) - 1)
    /\ x \in 0..(Len(LineAt(c, y)) - 1)
    /\ MatchWords(TextFrom(c, y), words, 1, x) # -1

Occurrences(c, words) ==
    UNION {{Coordinate(x, y) : x \in {i \in 0..(Len(LineAt(c, y)) - 1) : Occurs(c, words, i, y)}}
           : y \in 0..(Len(Flat(c)) - 1)}

\* document order: line first, then offset
Before(a, b) == a.y < b.y \/ (a.y = b.y /\ a.x < b.x)

IsSearch(k) == k.op = "search_next"

\* C1: a forward search_next returns the next occurrence after the cursor:
\* no occurrence starts strictly after the cursor and strictly before the
\* Coordinate returned, and it returns None only if no occurrence starts
\* after the cursor.
C1_ForwardReturnsNextOccurrence ==
    (IsSearch(call) /\ call.forward) =>
        LET occ == Occurrences(content, split(call.pattern_str))
            cur == call.current_coord
            m == call.result
        IN  IF m = None
            THEN ~\E o \in occ : Before(cur, o)
            ELSE ~\E o \in occ : Before(cur, o) /\ Before(o, m)

\* C2: a match is accepted for a candidate line only when it starts on that
\* line: the Coordinate a forward search_next returns is the place of an
\* occurrence of the pattern, also when lines of the window are empty.
C2_MatchStartsOnItsLine ==
    (IsSearch(call) /\ call.forward /\ split(call.pattern_str) # <<>> /\ call.result # None) =>
        Occurs(content, split(call.pattern_str), call.result.x, call.result.y)

\* C3: a "next" step from the Coordinate the step before returned, same
\* pattern and direction, never returns that Coordinate again: it returns
\* None or a Coordinate on a line strictly further in the scan direction, so
\* repeated steps on a finite document end with None.
C3_RepeatedNextProgress ==
    (IsSearch(prev) /\ IsSearch(call) /\ call.forward = prev.forward) =>
        /\ call.result # prev.result
        /\ call.result # None =>
               IF call.forward THEN call.result.y > prev.result.y
                               ELSE call.result.y < prev.result.y

C3_Witness ==
    /\ IsSearch(prev) /\ IsSearch(call)
    /\ call.forward /\ prev.forward
    /\ call.result # None
    /\ split(call.pattern_str) # <<>>

\* C4: a backward search_next from the Coordinate m a forward search
\* returned (for a pattern that has a word) re-finds the same or an earlier
\* match and does not skip past one: it returns a Coordinate, not after m,
\* with no occurrence strictly between it and m.
C4_BackwardRefindsForward ==
    (/\ IsSearch(prev) /\ IsSearch(call) /\ prev.forward /\ ~call.forward
     /\ split(call.pattern_str) # <<>>) =>
        LET occ == Occurrences(content, split(call.pattern_str))
            m == prev.result
            r == call.result
        IN  /\ r # None
            /\ ~Before(m, r)
            /\ ~\E o \in occ : Before(r, o) /\ Before(o, m)

\* C5: search does not wrap around: a forward search returns a Coordinate
\* on a line >= cursor.y, a backward search one on a line <= cursor.y, and
\* a forward search returns None when the pattern occurs at or before the
\* cursor but nowhere after it.
C5_NoWrapAround ==
    IsSearch(call) =>
        LET occ == Occurrences(content, split(call.pattern_str))
            cur == call.current_coord
            m == call.result
        IN  /\ (m # None /\ call.forward) => m.y >= cur.y
            /\ (m # None /\ ~call.forward) => m.y <= cur.y
            /\ (call.forward /\ occ # {} /\ ~\E o \in occ : Before(cur, o)) => m = None

C5_Witness ==
    /\ IsSearch(call) /\ call.forward
    /\ call.current_coord.y > 0
    /\ \E o \in Occurrences(content, split(call.pattern_str)) : o.y < call.current_coord.y
    /\ ~\E o \in Occurrences(content, split(call.pattern_str)) : Before(call.current_coord, o)
    /\ call.result = None

\* the phrase occurs at o and runs on into the line below
SplitAcrossLines(c, words, o) ==
    /\ Len(words) > 1
    /\ Occurs(c, words, o.x, o.y)
    /\ MatchWords(TextFrom(c, o.y), words, 1, o.x) > Len(LineAt(c, o.y))

\* C6: a phrase whose words are split across consecutive lines is found by
\* search_next, forward and backward: when its only occurrence o is split and
\* lies from the cursor in the direction of the scan, the Coordinate
\* returned is o (the line of its first word, the offset of that word).
C6_SplitPhraseFound ==
    IsSearch(call) =>
        LET words == split(call.pattern_str)
            cur == call.current_coord
        IN  \A o \in Occurrences(content, words) :
                (/\ Occurrences(content, words) = {o}
                 /\ SplitAcrossLines(content, words, o)
                 /\ IF call.forward THEN Before(cur, o) ELSE Before(o, cur))
                => call.result = o

\* C17: the already-visited rejection follows the scan direction: on the
\* cursor's line a forward search accepts only a match that starts after
\* current_coord.x and a backward search only one that starts before it, so
\* a backward search never returns a Coordinate on the cursor's line at or
\* after the cursor.
C17_RejectionFollowsDirection ==
    (/\ IsSearch(call) /\ split(call.pattern_str) # <<>> /\ call.current_coord.x >= 0
     /\ call.result # None /\ call.result.y = call.current_coord.y) =>
        IF call.forward THEN call.result.x > call.current_coord.x
                        ELSE call.result.x < call.current_coord.x

(***************************************************************************)
(* SpecAddress: Content.get_text_at over documents of segments of any      *)
(* height (a segment may be 0 lines high) and any integer y                *)
(***************************************************************************)
MaxSegments == 3
MaxSegmentHeight == 5
MaxBeyond == 2

\* a segment h lines high
SegmentOfHeight(h) == [i \in 1..h |-> <<"a">>]

AddressContents ==
    UNION {{[k \in 1..n |-> SegmentOfHeight(hs[k])] : hs \in [1..n -> 0..MaxSegmentHeight]}
           : n \in 0..MaxSegments}

InitAddress ==
    /\ NoApp
    /\ content \in AddressContents
    /\ call = NoCall
    /\ prev = NoCall

\* get_text_at(y)
DoGetTextAt ==
    /\ call = NoCall
    /\ \E y \in (0 - MaxBeyond)..(virtual_height(content) + MaxBeyond) :
           call' = [op |-> "get_text_at", y |-> y,
                    address |-> get_text_at_address(segment_heights(content), y),
                    result |-> get_text_at(content, y)]
    /\ UNCHANGED <<content, prev, app>>

NextAddress == DoGetTextAt

SpecAddress == InitAddress /\ [][NextAddress]_vars

\* the sum of the heights of the first k segments
HeightAbove(c, k) == SumHeights(SubSeq(c, 1, k), 1)

\* C8: for y in [0, total height) get_text_at addresses the first segment
\* whose cumulative height exceeds y, at the local line y minus the height
\* of the segments before it; for every other y, negative y included, it
\* returns None and addresses no segment.
C8_AddressingAgrees ==
    (call.op = "get_text_at") =>
        IF call.y >= 0 /\ call.y < virtual_height(content)
        THEN LET k == CHOOSE j \in 1..Len(content) :
                          /\ HeightAbove(content, j) > call.y
                          /\ \A i \in 1..(j - 1) : HeightAbove(content, i) <= call.y
             IN  /\ call.address = [segment |-> k - 1,
                                     local |-> call.y - HeightAbove(content, k - 1)]
                 /\ call.result # None
        ELSE call.address = None /\ call.result = None

(***************************************************************************)
(* SpecSentences: Content.text_to_sentences over short texts               *)
(***************************************************************************)
MaxTextLen == 6

TextAlphabet == {"a", "b", ".", " "}

Texts == UNION {[1..n -> TextAlphabet] : n \in 0..MaxTextLen}

InitSentences ==
    /\ NoApp
    /\ content = <<>>
    /\ call = NoCall
    /\ prev = NoCall

\* text_to_sentences(paragraph)
DoTextToSentences ==
    /\ call = NoCall
    /\ \E t \in Texts :
           call' = [op |-> "text_to_sentences", paragraph |-> t,
                    result |-> text_to_sentences(t)]
    /\ UNCHANGED <<content, prev, app>>

NextSentences == DoTextToSentences

SpecSentences == InitSentences /\ [][NextSentences]_vars

\* the text with every whitespace run made one blank and none at its ends
RECURSIVE Normalized(_)
Normalized(t) ==
    IF t = <<>> THEN <<>>
    ELSE IF IsSpace(Head(t))
         THEN LET r == Normalized(Tail(t))
              IN  IF r = <<>> \/ ~IsSpace(Head(r)) THEN <<" ">> \o r ELSE r
         ELSE <<Head(t)>> \o Normalized(Tail(t))

Trimmed(t) ==
    LET inner == {i \in 1..Len(t) : ~IsSpace(t[i])}
    IN  IF inner = {} THEN <<>>
        ELSE SubSeq(t, CHOOSE i \in inner : \A j \in inner : i <= j,
                       CHOOSE i \in inner : \A j \in inner : i >= j)

\* the period-delimited fragments of t: for the k-th period (and for the end
\* of the text, k = number of periods + 1) the text since the period before,
\* trimmed, with the period that ends it
Periods(t) == {i \in 1..Len(t) : t[i] = "."}

NthPeriod(t, k) ==
    IF k = 0 THEN 0
    ELSE IF k > Cardinality(Periods(t)) THEN Len(t) + 1
    ELSE CHOOSE i \in Periods(t) : Cardinality({j \in Periods(t) : j <= i}) = k

Fragment(t, k) ==
    LET body == Trimmed(SubSeq(t, NthPeriod(t, k - 1) + 1, NthPeriod(t, k) - 1))
    IN  IF body = <<>> THEN <<>>
        ELSE IF k <= Cardinality(Periods(t)) THEN Append(body, ".") ELSE body

RECURSIVE FragmentsFrom(_, _)
FragmentsFrom(t, k) ==
    IF k > Cardinality(Periods(t)) + 1 THEN <<>>
    ELSE (IF Fragment(t, k) = <<>> THEN <<>> ELSE <<Fragment(t, k)>>)
         \o FragmentsFrom(t, k + 1)

\* C9: text_to_sentences returns, in order, exactly the non-empty
\* period-delimited fragments of the whitespace-normalized text, each with
\* the single period that followed it, the trailing fragment without one;
\* no sentence is empty or holds a period before its last character.
C9_SentencesAreFragments ==
    (call.op = "text_to_sentences") =>
        /\ call.result = FragmentsFrom(Trimmed(Normalized(call.paragraph)), 1)
        /\ \A k \in 1..Len(call.result) :
               /\ call.result[k] # <<>>
               /\ \A i \in 1..(Len(call.result[k]) - 1) : call.result[k][i] # "."

\* split("a. b") = ["a.", "b"]: a sentence with its period, then the
\* trailing fragment without one
C9_Witness ==
    /\ call.op = "text_to_sentences"
    /\ call.paragraph = <<"a", ".", " ", "b">>
    /\ call.result = << <<"a", ".">>, <<"b">> >>

(***************************************************************************)
(* SpecAlign: Content.alignment_search over documents of sentences         *)
(***************************************************************************)
MaxRadius == 2

\* the line texts of the documents aligned: no period, a sentence, two
\* sentences
AlignLineTexts ==
    { <<>>, <<"a">>, <<"a", ".">>, <<"b", ".">>, <<"a", ".", "b", ".">> }

AlignContents ==
    UNION {{Segmented(lines, hs) : lines \in [1..h -> AlignLineTexts], hs \in Compositions(h)}
           : h \in 0..MaxHeight}

\* the fingerprints looked for: those of the document's lines, and one more
AlignPatterns(c) ==
    {alignment_fingerprint(c, l) : l \in 0..(virtual_height(c) - 1)} \cup {<<"b", ".">>}

InitAlign ==
    /\ NoApp
    /\ content \in AlignContents
    /\ call = NoCall
    /\ prev = NoCall

\* alignment_search(pattern_str, current_coord, radius)
DoAlignmentSearch ==
    /\ call = NoCall
    /\ \E p \in AlignPatterns(content),
          y \in 0..(IF virtual_height(content) = 0 THEN 0 ELSE virtual_height(content) - 1),
          r \in -1..MaxRadius :
           call' = [op |-> "alignment_search", pattern_str |-> p,
                    current_coord |-> Coordinate(-1, y), radius |-> r,
                    result |-> alignment_search(content, p, Coordinate(-1, y), r)]
    /\ UNCHANGED <<content, prev, app>>

NextAlign == DoAlignmentSearch

SpecAlign == InitAlign /\ [][NextAlign]_vars

\* the lines alignment_search scans for `around` and `radius`
ScannedLines(c, around, radius) ==
    IF radius = -1 THEN 0..(virtual_height(c) - 1)
    ELSE {l \in 0..(virtual_height(c) - 1) : around.y - radius <= l /\ l < around.y + radius}

\* the scanned lines whose fingerprint is the one looked for
MatchingLines(c, k) ==
    {l \in ScannedLines(c, k.current_coord, k.radius) :
        alignment_fingerprint(c, l) = k.pattern_str}

\* C10: when lines of the scanned range have the fingerprint looked for,
\* alignment_search returns the lowest of them + 1, whatever `around` and
\* the radius: L + 1 when L is the only such line of the document.
C10_AlignmentDeterminism ==
    (call.op = "alignment_search" /\ MatchingLines(content, call) # {}) =>
        \E l \in MatchingLines(content, call) :
            /\ \A m \in MatchingLines(content, call) : l <= m
            /\ call.result = Some(l + 1)

\* two lines of a range given by a radius have the fingerprint, a sentence
C10_Witness ==
    /\ call.op = "alignment_search"
    /\ call.pattern_str # <<>>
    /\ Cardinality(MatchingLines(content, call)) = 2
    /\ call.radius # -1
    /\ call.result # None

\* the lines of the closed interval [around.y - radius, around.y + radius]
\* clipped to [0, height), every line when radius = -1
ClosedInterval(c, around, radius) ==
    IF radius = -1 THEN 0..(virtual_height(c) - 1)
    ELSE {l \in 0..(virtual_height(c) - 1) : around.y - radius <= l /\ l <= around.y + radius}

\* C11: alignment_search scans exactly the closed interval
\* [around.y - radius, around.y + radius] clipped to [0, height), or every
\* line when radius = -1: it returns a line exactly when a line of that
\* interval has the fingerprint looked for (a line at around.y + radius
\* included, a line farther than radius away excluded).  Stated for the
\* fingerprints perform_alignment looks for, which are not empty.
C11_ScansClosedInterval ==
    (call.op = "alignment_search" /\ call.pattern_str # <<>>) =>
        (call.result # None <=>
            \E l \in ClosedInterval(content, call.current_coord, call.radius) :
                alignment_fingerprint(content, l) = call.pattern_str)

(***************************************************************************)
(* SpecFingerprint: the fingerprint action_switch_book takes of the source *)
(* document at the line the viewport starts with                           *)
(***************************************************************************)
\* the line texts: those aligned above and a line of six sentences
FingerprintLineTexts ==
    AlignLineTexts \cup
        {<<"a", ".", "b", ".", "a", ".", "b", ".", "a", ".", "b", ".">>}

FingerprintContents ==
    UNION {{Segmented(lines, hs) : lines \in [1..h -> FingerprintLineTexts],
                                   hs \in Compositions(h)}
           : h \in 0..MaxHeight}

InitFingerprint ==
    /\ NoApp
    /\ content \in FingerprintContents
    /\ call = NoCall
    /\ prev = NoCall

\* current_session_lines = fix_points(get_n_visible_sentences(current_y, n=4))
DoSourceFingerprint ==
    /\ call = NoCall
    /\ \E y \in 0..(IF virtual_height(content) = 0 THEN 0 ELSE virtual_height(content) - 1) :
           call' = [op |-> "current_session_lines", current_y |-> y,
                    result |-> current_session_lines(content, y)]
    /\ UNCHANGED <<content, prev, app>>

NextFingerprint == DoSourceFingerprint

SpecFingerprint == InitFingerprint /\ [][NextFingerprint]_vars

\* C18: the fingerprint action_switch_book derives for the source line
\* (get_n_visible_sentences as it calls it, then fix_points) is the
\* fingerprint alignment_search computes for that line of the same
\* document.
C18_SameFingerprint ==
    (call.op = "current_session_lines") =>
        call.result = alignment_fingerprint(content, call.current_y)

(***************************************************************************)
(* SpecJustify: Body.render_line on the rendered text of one line, for the *)
(* widths and the text-align settings of the widget                        *)
(***************************************************************************)
MaxWidth == 6

LineAlphabet == {"a", "b", " "}

\* the text of a rendered line is at most as wide as the widget
RenderedLines(width) == UNION {[1..n -> LineAlphabet] : n \in 0..width}

TextAligns == {"justify", "left"}

InitJustify ==
    /\ NoApp
    /\ content = <<>>
    /\ call = NoCall
    /\ prev = NoCall

\* render_line(y) of a right-to-left Body whose line y renders to `raw`
DoRenderLine ==
    /\ call = NoCall
    /\ \E width \in 1..MaxWidth, align \in TextAligns :
         \E raw \in RenderedLines(width) :
           call' = [op |-> "render_line", raw |-> raw, target_width |-> width,
                    text_align |-> align,
                    result |-> render_line_text(raw, width, align)]
    /\ UNCHANGED <<content, prev, app>>

NextJustify == DoRenderLine

SpecJustify == InitJustify /\ [][NextJustify]_vars

RECURSIVE GapsFrom(_, _, _)
\* the lengths of the runs of blanks of t, left to right, from index i on
GapsFrom(t, i, run) ==
    IF i > Len(t) THEN (IF run > 0 THEN <<run>> ELSE <<>>)
    ELSE IF IsSpace(t[i]) THEN GapsFrom(t, i + 1, run + 1)
    ELSE (IF run > 0 THEN <<run>> ELSE <<>>) \o GapsFrom(t, i + 1, 0)

Gaps(t) == GapsFrom(t, 1, 0)

\* the line is one the full justification applies to
Justifiable(k) ==
    /\ k.op = "render_line"
    /\ k.text_align = "justify"
    /\ Len(split(k.raw)) > 1
    /\ 5 * Len(Trimmed(k.raw)) > 4 * k.target_width
    /\ Len(Trimmed(k.raw)) <= k.target_width

\* C16: full justification of a line of more than one word whose stripped
\* length is above 80% of target_width and not above target_width gives
\* (before the bidi reordering) exactly target_width characters, the words
\* in their order, every gap floor(total_spaces_needed / space_slots)
\* blanks wide and exactly the first (total_spaces_needed mod space_slots)
\* gaps one blank wider.
C16_JustificationExact ==
    Justifiable(call) =>
        LET words == split(call.raw)
            needed == call.target_width - total_chars(words)
            slots == Len(words) - 1
        IN  /\ Len(call.result) = call.target_width
            /\ split(call.result) = words
            /\ Gaps(call.result) =
                   [i \in 1..slots |->
                       (needed \div slots) + (IF i <= needed % slots THEN 1 ELSE 0)]

\* three words, three blanks for two gaps: the first gap gets the extra one
C16_Witness ==
    /\ Justifiable(call)
    /\ Len(split(call.raw)) = 3
    /\ (call.target_width - total_chars(split(call.raw))) % 2 = 1
    /\ Gaps(call.result)[1] = Gaps(call.result)[2] + 1

(***************************************************************************)
(* Spec: the reading-session controller (Baca) and its search handlers.    *)
(* A handler of the app runs to its end before the next message is taken;  *)
(* load_all_sessions is a task of its own and adds a session per step.     *)
(***************************************************************************)
ViewportHeight == 1
MaxAlerts == 2
MaxPending == 1

\* lines "a", "b" in one segment and "aa" in the next
Book1 == << << <<"a">>, <<"b">> >>, << <<"a", "a">> >> >>
\* an empty line, then "a b"
Book2 == << << <<>>, <<"a", " ", "b">> >> >>

\* two lines of sentences: "a.b." and "b."
Book3 == << << <<"a", ".", "b", ".">>, <<"b", ".">> >> >>

\* one line, no higher than the viewport
Book4 == << << <<"a">> >> >>

Books == {Book1, Book2, Book3, Book4}

\* the command lines: one book; two books without sentences, the second
\* shorter; a book of sentences with itself and with a book without; three
\* books
EbookPaths ==
    {<<Book1>>, <<Book2, Book4>>, <<Book3, Book3>>, <<Book3, Book2>>,
     <<Book4, Book4, Book4>>}

\* matches.json holds the entries `data`
IndexOf(data) == [status |-> "ok", data |-> data]

\* json.load fails on the file
IndexInvalid == [status |-> "invalid"]

\* the index files: none, an unreadable one, and one that pairs the
\* fingerprint "b. b." (that of line 0 of Book3) with itself
Indexes ==
    {IndexMissing, IndexInvalid,
     IndexOf(<< [eng |-> <<"b", ".", " ", "b", ".">>,
                 heb |-> <<"b", ".", " ", "b", ".">>] >>)}

\* what a search prompt can submit: the patterns above and a blank one
SubmittedPatterns == Patterns \cup {<<" ">>}

Init ==
    /\ content = <<>>
    /\ call = NoCall
    /\ prev = NoCall
    /\ ebook_paths \in EbookPaths
    /\ matches \in Indexes
    /\ AppConstructed

\* Baca.content: raises IndexError while no session is loaded
the_content == sessions[current_index + 1].content

\* Content.size.width
content_width(c) == MaxLen(Flat(c))

RECURSIVE VisibleHeightFrom(_, _)
VisibleHeightFrom(ss, k) ==
    IF k > Len(ss) THEN 0
    ELSE (IF ss[k].display THEN virtual_height(ss[k].content) ELSE 0)
         + VisibleHeightFrom(ss, k + 1)

\* screen.max_scroll_y for the sessions ss: the height of what is displayed
\* less the viewport
max_scroll_y_of(ss) ==
    LET h == VisibleHeightFrom(ss, 1)
    IN  IF h > ViewportHeight THEN h - ViewportHeight ELSE 0

max_scroll_y == max_scroll_y_of(sessions)

\* screen.scroll_to(y=y) with the scroll watcher installed by on_mount
ScrollTo(y) ==
    LET target == IF y < 0 THEN 0 ELSE IF y > max_scroll_y THEN max_scroll_y ELSE y
    IN  /\ scroll_y' = target
        /\ reading_progress' =
               IF target # scroll_y /\ max_scroll_y # 0
               THEN Fraction(target, max_scroll_y)
               ELSE reading_progress

\* SearchMatch.scroll_visible: scroll_to_region on the row of the match
RegionTarget(y) ==
    IF y < scroll_y THEN y
    ELSE IF y >= scroll_y + ViewportHeight THEN y - ViewportHeight + 1
    ELSE scroll_y

\* what an accepted match does in search_next: clear_search, mount the
\* SearchMatch, scroll it into view
MountMatch(m) ==
    /\ highlights' = [highlights EXCEPT ![current_index + 1] =
                          [match_str |-> m.match_str, coordinate |-> m.coord]]
    /\ ScrollTo(RegionTarget(m.coord.y))

\* every book shown as it is loaded
initial_display_all(i) == TRUE

\* content.display = (i == 0)
initial_display(i) == i = 0

\* load_all_sessions: one iteration of its loop
LoadSession ==
    /\ exit = ""
    /\ Len(sessions) < Len(ebook_paths)
    /\ sessions' = Append(sessions, [content |-> ebook_paths[Len(sessions) + 1],
                                      display |-> initial_display(Len(sessions)),
                                      reading_progress |-> Fraction(0, 1)])
    /\ highlights' = Append(highlights, None)
    /\ UNCHANGED <<fn, sw, ebook_paths, current_index, search_mode, alerts, scroll_y,
                   reading_progress, exit>>

\* the scroll keys (screen.action_scroll_down, ...): the viewport moves and
\* the watcher wrapped around watch_scroll_y records the progress
UserScroll ==
    /\ exit = ""
    /\ \E y \in 0..max_scroll_y : y # scroll_y /\ ScrollTo(y)
    /\ UNCHANGED <<fn, sw, ebook_paths, sessions, current_index, search_mode, highlights,
                   alerts, exit>>

\* Baca.on_search_submitted(SearchSubmitted(value, forward)), with the
\* action_search_next it awaits
on_search_submitted ==
    /\ exit = ""
    /\ \E value \in SubmittedPatterns, forward \in BOOLEAN :
        IF sessions = <<>>
        THEN /\ exit' = "IndexError"
             /\ UNCHANGED <<search_mode, highlights, alerts, scroll_y, reading_progress>>
        ELSE LET mode == [pattern_str |-> value,
                          current_coord |->
                              Coordinate(IF forward THEN -1 ELSE content_width(the_content),
                                         scroll_y),
                          forward |-> forward,
                          saved_position |-> reading_progress]
                 m == search_next_match(the_content, mode.pattern_str, mode.current_coord,
                                        mode.forward)
             IN  /\ IF m # None
                    THEN /\ MountMatch(m)
                         /\ search_mode' = [mode EXCEPT !.current_coord = m.coord]
                         /\ UNCHANGED alerts
                    ELSE /\ alerts < MaxAlerts
                         /\ alerts' = alerts + 1
                         /\ search_mode' = None
                         /\ UNCHANGED <<highlights, scroll_y, reading_progress>>
                 /\ UNCHANGED exit
    /\ UNCHANGED <<fn, sw, ebook_paths, sessions, current_index>>

\* Baca.action_search_next
action_search_next ==
    /\ exit = ""
    /\ search_mode # None
    /\ LET m == search_next_match(the_content, search_mode.pattern_str,
                                   search_mode.current_coord, search_mode.forward)
       IN  IF m # None
           THEN /\ MountMatch(m)
                /\ search_mode' = [search_mode EXCEPT !.current_coord = m.coord]
                /\ UNCHANGED alerts
           ELSE /\ alerts < MaxAlerts
                /\ alerts' = alerts + 1
                /\ UNCHANGED <<search_mode, highlights, scroll_y, reading_progress>>
    /\ UNCHANGED <<fn, sw, ebook_paths, sessions, current_index, exit>>

\* Baca.action_search_prev
action_search_prev ==
    /\ exit = ""
    /\ search_mode # None
    /\ LET m == search_next_match(the_content, search_mode.pattern_str,
                                   search_mode.current_coord, ~search_mode.forward)
       IN  IF m # None
           THEN /\ MountMatch(m)
                /\ search_mode' = [search_mode EXCEPT !.current_coord = m.coord]
           ELSE UNCHANGED <<search_mode, highlights, scroll_y, reading_progress>>
    /\ UNCHANGED <<fn, sw, ebook_paths, sessions, current_index, alerts, exit>>

\* Baca.action_stop_search
action_stop_search ==
    /\ exit = ""
    /\ search_mode # None
    /\ search_mode' = None
    /\ highlights' = [highlights EXCEPT ![current_index + 1] = None]
    /\ UNCHANGED <<fn, sw, ebook_paths, sessions, current_index, alerts, scroll_y,
                   reading_progress, exit>>

\* Baca.action_cancel_search_or_quit
action_cancel_search_or_quit ==
    /\ exit = ""
    /\ IF search_mode # None
       THEN /\ ScrollTo((search_mode.saved_position.num * max_scroll_y)
                            \div search_mode.saved_position.den)
            /\ search_mode' = None
            /\ highlights' = [highlights EXCEPT ![current_index + 1] = None]
            /\ UNCHANGED exit
       ELSE /\ exit' = "quit"
            /\ UNCHANGED <<search_mode, highlights, scroll_y, reading_progress>>
    /\ UNCHANGED <<fn, sw, ebook_paths, sessions, current_index, alerts>>

\* Baca.action_switch_book up to call_after_refresh: the fingerprint of the
\* source is taken, its progress saved, the next session shown in its place
\* and perform_alignment left to run after the refresh
action_switch_book ==
    /\ exit = ""
    /\ Len(sessions) >= 2
    /\ Len(pending) < MaxPending
    /\ LET lines == current_session_lines(the_content, scroll_y)
           saved == IF max_scroll_y > 0
                    THEN [sessions EXCEPT ![current_index + 1].reading_progress =
                                              Fraction(scroll_y, max_scroll_y)]
                    ELSE sessions
           next == (current_index + 1) % Len(sessions)
           hidden == [saved EXCEPT ![current_index + 1].display = FALSE]
           shown == [hidden EXCEPT ![next + 1].display = TRUE]
           limit == max_scroll_y_of(shown)
           clamped == IF scroll_y > limit THEN limit ELSE scroll_y
       IN  /\ sessions' = shown
           /\ current_index' = next
           /\ pending' = Append(pending, [current |-> current_index, next |-> next,
                                          lines |-> lines])
           \* the refreshed layout keeps scroll_y within the new max_scroll_y
           /\ scroll_y' = clamped
           /\ reading_progress' = IF clamped # scroll_y /\ limit # 0
                                  THEN Fraction(clamped, limit)
                                  ELSE reading_progress
    /\ UNCHANGED <<fn, ebook_paths, search_mode, highlights, alerts, exit, matches,
                   title, focused>>

RECURSIVE get_matching_lines_from_json(_, _)
\* the other side of the first entry one side of which is lines_to_match,
\* or None
get_matching_lines_from_json(data, lines_to_match) ==
    IF data = <<>> THEN None
    ELSE IF Head(data).eng = lines_to_match THEN Some(Head(data).heb)
    ELSE IF Head(data).heb = lines_to_match THEN Some(Head(data).eng)
    ELSE get_matching_lines_from_json(Tail(data), lines_to_match)

\* radius=1000 in the call of alignment_search by perform_alignment
alignment_radius == 1000

\* target_y: current_session.reading_progress * max_scroll_y, on a whole line
estimated_y(p) ==
    LET progress == sessions[p.current + 1].reading_progress
        target_y == (progress.num * max_scroll_y) \div progress.den
    IN  IF target_y > max_scroll_y THEN max_scroll_y ELSE target_y

\* next_session_lines of the callback p, when the index loads
next_session_lines(p) == get_matching_lines_from_json(matches.data, p.lines)

\* `match` of the callback p: what alignment_search returns around the
\* estimated line, None when the index has no (or an empty) entry
alignment_match(p) ==
    LET lines == next_session_lines(p)
    IN  IF lines # None /\ lines.some # <<>>
        THEN alignment_search(sessions[p.next + 1].content, lines.some,
                              Coordinate(-1, estimated_y(p)), alignment_radius)
        ELSE None

\* perform_alignment(current_session_lines), run by call_after_refresh
perform_alignment ==
    /\ exit = ""
    /\ pending # <<>>
    /\ pending' = Tail(pending)
    /\ LET p == Head(pending)
       IN  IF matches.status # "ok"
           THEN \* open() or json.load() raises in get_matching_lines_from_json
                /\ exit' = IF matches.status = "missing" THEN "FileNotFoundError"
                                                         ELSE "JSONDecodeError"
                /\ UNCHANGED <<focused, scroll_y, reading_progress, alerts, title>>
           ELSE /\ focused' = Some(p.next)
                /\ IF max_scroll_y > 0
                   THEN /\ ScrollTo(estimated_y(p))
                        /\ IF alignment_match(p) # None
                           THEN \* match.y on the int alignment_search returned
                                /\ exit' = "AttributeError"
                                /\ UNCHANGED <<alerts, title>>
                           ELSE /\ alerts < MaxAlerts
                                /\ alerts' = alerts + 1
                                /\ title' = Some(p.next)
                                /\ UNCHANGED exit
                   ELSE /\ title' = Some(p.next)
                        /\ UNCHANGED <<scroll_y, reading_progress, alerts, exit>>
    /\ UNCHANGED <<fn, ebook_paths, sessions, current_index, search_mode, highlights,
                   matches>>

Next ==
    \/ LoadSession
    \/ UserScroll
    \/ action_switch_book
    \/ perform_alignment
    \/ on_search_submitted
    \/ action_search_next
    \/ action_search_prev
    \/ action_stop_search
    \/ action_cancel_search_or_quit

Spec == Init /\ [][Next]_vars

\* C7: an empty or whitespace-only pattern matches nothing: no search mode
\* is left active with such a pattern, and no highlight of an empty match
\* is mounted.
C7_BlankPatternNeverMatches ==
    /\ search_mode # None => split(search_mode.pattern_str) # <<>>
    /\ \A i \in 1..Len(highlights) :
           highlights[i] # None => highlights[i].match_str # <<>>

\* a "next" step whose search_next returns None
NextMiss ==
    /\ action_search_next
    /\ search_next_match(the_content, search_mode.pattern_str,
                         search_mode.current_coord, search_mode.forward) = None

\* a "previous" step whose search_next returns None
PrevMiss ==
    /\ action_search_prev
    /\ search_next_match(the_content, search_mode.pattern_str,
                         search_mode.current_coord, ~search_mode.forward) = None

\* a submission whose search_next returns None: is_found is False and the
\* handler ends with search_mode = None
SubmitMiss ==
    /\ on_search_submitted
    /\ sessions # <<>>
    /\ search_mode' = None

\* a perform_alignment that loads the index and finds no entry for the
\* source fingerprint, or no line of the target with the fingerprint paired
AlignMiss ==
    /\ perform_alignment
    /\ matches.status = "ok"
    /\ alignment_match(Head(pending)) = None

\* a perform_alignment whose alignment_search returns a line
AlignHit ==
    /\ perform_alignment
    /\ matches.status = "ok"
    /\ max_scroll_y > 0
    /\ alignment_match(Head(pending)) # None

\* C12: when matches.json is missing or cannot be loaded, perform_alignment
\* ends as an alignment miss does: no error ends the app, the next document
\* is displayed and has the focus, the title names it and the "couldn't
\* align" alert is mounted (where a miss mounts it: the document is higher
\* than the viewport).
C12_IndexUnavailableIsMiss ==
    [][(perform_alignment /\ matches.status # "ok") =>
          LET p == Head(pending)
          IN  /\ exit' = ""
              /\ sessions'[p.next + 1].display
              /\ focused' = Some(p.next)
              /\ title' = Some(p.next)
              /\ max_scroll_y > 0 => alerts' = alerts + 1]_vars

\* C13: a "next", "previous" or submission step that finds no match leaves
\* the search mode that was active before it active with the same pattern,
\* current_coord, direction and saved position, and does not move the
\* viewport.  Stated for an active search whose pattern has a word.
C13_MissLeavesCursor ==
    [][(/\ search_mode # None
        /\ split(search_mode.pattern_str) # <<>>
        /\ (NextMiss \/ PrevMiss \/ SubmitMiss)) =>
          (search_mode' = search_mode /\ scroll_y' = scroll_y)]_vars

\* C14: every miss is surfaced: a "next", "previous" or submission step
\* whose search_next returns None, and a perform_alignment that finds no
\* index entry or no target line, mounts an alert.
C14_MissMountsAlert ==
    [][((search_mode # None /\ (NextMiss \/ PrevMiss)) \/ SubmitMiss \/ AlignMiss) =>
          alerts' = alerts + 1]_vars

\* C15: while at least one session is loaded exactly one Content is
\* displayed, that of sessions[current_index], however action_switch_book
\* and the loading of further sessions interleave.
C15_ExactlyOneVisible ==
    sessions # <<>> =>
        /\ current_index \in 0..(Len(sessions) - 1)
        /\ \A i \in 1..Len(sessions) : sessions[i].display <=> (i = current_index + 1)

\* the second book is shown after a switch while the third is still to load
C15_Witness ==
    /\ Len(ebook_paths) = 3
    /\ Len(sessions) = 2
    /\ current_index = 1
    /\ sessions[2].display

\* C19: when alignment_search finds a target line, perform_alignment scrolls
\* the viewport to the line number returned (matched line + 1) and sets the
\* title to the next book, and no error ends the app.
C19_AlignmentRepositions ==
    [][AlignHit =>
          LET p == Head(pending)
              line == alignment_match(p).some
          IN  /\ exit' = ""
              /\ scroll_y' = (IF line > max_scroll_y THEN max_scroll_y ELSE line)
              /\ title' = Some(p.next)]_vars

\* C20: while a search mode is active its current_coord addresses the
\* document displayed: its y is a line of sessions[current_index], the
\* SearchMatch of that document is mounted at it, and no other document
\* holds a SearchMatch.  Stated for a search whose pattern has a word.
C20_CursorAddressesVisible ==
    (search_mode # None /\ split(search_mode.pattern_str) # <<>>) =>
        /\ search_mode.current_coord.y \in 0..(virtual_height(the_content) - 1)
        /\ highlights[current_index + 1] # None
        /\ highlights[current_index + 1].coordinate = search_mode.current_coord
        /\ \A i \in 1..Len(highlights) : i # current_index + 1 => highlights[i] = None

====
